---------------------------- MODULE Spec2Model ----------------------------
(***************************************************************************)
(* Batching and delivery pipeline of gollum: the BatchedWriterAssembly     *)
(* helper (components package) and the Socket producer, both built on      *)
(* core.MessageBatch and core.WriterAssembly.                              *)
(*                                                                         *)
(* One behaviour follows one plugin instance; kind says which one.  The    *)
(* MessageBatch, the WriterAssembly and the ProducerBase life cycle are    *)
(* not part of the sources at hand and follow their written contract.      *)
(*                                                                         *)
(* A handler is one action.  A handler that blocks is cut where it blocks: *)
(* in Batch.Flush while another flush is in flight, in WaitForFlush, and   *)
(* between two rounds of AppendRetry.  The flush in flight runs beside the *)
(* handlers, one message per step.                                         *)
(***************************************************************************)
EXTENDS Integers, Sequences, FiniteSets, TLC

\* ------------------------------------------------------------- bounds
MaxMsgs == 3        \* messages that enter the producer in one behaviour
MaxSinks == 2       \* writers / connections opened in one behaviour
MaxTicks == 1       \* largest configured timeout, in clock ticks
MaxCloses == 2      \* Close calls of a BatchedWriterAssembly on one writer

Nil == 0
Absent == -1        \* a configuration key that is not set
Callers == {"bwa", "tick", "msg", "ctl"}   \* goroutines that call Batch.Flush

VARIABLES
    kind,               \* "bwa" | "socket" | "null": the instance this behaviour follows
    batchMaxCount,      \* capacity handed to NewMessageBatch
    batchFlushCount,
    batchTimeout,
    flushTimeout,       \* bwa.flushTimeout / prod.GetShutdownTimeout()
    acknowledge,        \* prod.acknowledge, a sequence of characters
    queue,              \* MessageBatch: buffered messages, oldest first
    closed,             \* MessageBatch: closed for appends
    flight,             \* MessageBatch: rest of the snapshot being flushed
    flightFn,           \* "none" | "Write" | "Flush": the writeFn of the flight
    messagesSinceFlush, \* MessageBatch: appended since the last flush
    elapsed,            \* MessageBatch: clock ticks since the last flush
    blockedFn,          \* per caller: the writeFn of its Flush call that waits
    writer,             \* bwa.writer (Nil when unset)
    connection,         \* prod.connection (Nil when not connected)
    asmWriter,          \* WriterAssembly: current sink handle
    opened,             \* sinks opened so far (writers created, connections dialed)
    sinkClosed,         \* sinks whose Close has been called
    closeCalls,         \* per sink: calls of its Close so far
    state,              \* ProducerBase state
    pc,                 \* position of the calling / control goroutine
    waited,             \* clock ticks spent in the current bounded wait
    pending,            \* message AppendRetry is still retrying (Nil: none)
    nextMsg,            \* sequence number of the next message to arrive
    atClose,            \* batch content when Socket.close started
    written,            \* <<message, sink>> pairs delivered to a sink
    dropped,            \* messages handed to the drop / fallback path
    workerDone,         \* calls of WorkerDone
    panicked,           \* a goroutine faulted (nil dereference)
    control,            \* Null: content of the control channel (capacity 1)
    streams,            \* Null: prod.streams
    commands,           \* Null: control commands sent so far, in order
    lastRead,           \* result of the Read of the last validate call (NoRead: none)
    lastOp              \* what the last step did if it was a ticker callback or Flush

cfgVars == <<kind, batchMaxCount, batchFlushCount, batchTimeout, flushTimeout, acknowledge>>
snapVars == <<queue, flight, flightFn, messagesSinceFlush, elapsed>>
batchVars == <<snapVars, closed, blockedFn>>
sinkVars == <<writer, connection, asmWriter, opened, sinkClosed, closeCalls>>
ctlVars == <<state, pc, waited, pending, nextMsg, atClose, workerDone, panicked>>
logVars == <<written, dropped, lastRead>>
nullVars == <<control, streams, commands>>
vars == <<cfgVars, batchVars, sinkVars, ctlVars, logVars, nullVars, lastOp>>

MinI(a, b) == IF a < b THEN a ELSE b

\* ------------------------------------------------- core.MessageBatch
IsEmpty == queue = <<>>

ReachedSizeThreshold(n) == messagesSinceFlush >= n

ReachedTimeThreshold(d) == elapsed >= d

\* Append: refused when the batch is closed or at capacity.
CanAppend == ~closed /\ Len(queue) < batchMaxCount

BatchAppend(m) ==
    /\ queue' = Append(queue, m)
    /\ messagesSinceFlush' = messagesSinceFlush + 1
    /\ UNCHANGED <<closed, flight, flightFn, elapsed, blockedFn>>

Reverse(seq) == [i \in DOMAIN seq |-> seq[Len(seq) + 1 - i]]

\* Variant of TakeSnapshot that hands the newest message over first.
TakeSnapshot_Reversed(fn) ==
    /\ flight' = Reverse(queue)
    /\ flightFn' = IF queue = <<>> THEN "none" ELSE fn
    /\ queue' = <<>>
    /\ messagesSinceFlush' = 0
    /\ elapsed' = 0

\* Flush(writeFn), once no other flush is in flight: the snapshot is taken,
\* the batch is empty for new appends and the threshold counters start
\* again; the snapshot is then handled one message at a time (FlushStep).
TakeSnapshot(fn) ==
    /\ flight' = queue
    /\ flightFn' = IF queue = <<>> THEN "none" ELSE fn
    /\ queue' = <<>>
    /\ messagesSinceFlush' = 0
    /\ elapsed' = 0

\* Variant of BatchFlush that does not wait for the flush in flight.
BatchFlush_NoWait(c, fn) ==
    TakeSnapshot(fn) /\ UNCHANGED blockedFn

\* Flush(writeFn) called by caller c: at most one flush is in flight, so the
\* call waits (c is blocked) while there is one.
BatchFlush(c, fn) ==
    IF flight = <<>>
    THEN TakeSnapshot(fn) /\ UNCHANGED blockedFn
    ELSE blockedFn' = [blockedFn EXCEPT ![c] = fn] /\ UNCHANGED snapVars

\* The Flush call of caller c stops waiting.
BatchFlushResume(c) ==
    /\ blockedFn[c] # "none"
    /\ flight = <<>>
    /\ TakeSnapshot(blockedFn[c])
    /\ blockedFn' = [blockedFn EXCEPT ![c] = "none"]

\* WaitForFlush(timeout): over when the flush completed or the timeout elapsed.
WaitOver == flight = <<>> \/ waited >= flushTimeout

\* ------------------------------------------------ core.WriterAssembly
\* WriterAssembly.SetWriter
AsmSetWriter(w) == asmWriter' = w

\* Ways the write of one message to sink s can end: a closed sink refuses
\* the write.
WriteResults(s) == IF s \in sinkClosed THEN {"writeError"} ELSE {"ok", "writeError"}

\* No error handler set (BatchedWriterAssembly sets none): the default policy
\* closes and discards the current sink handle and reports failure.
DefaultErrorHandler(ret) ==
    /\ ret = FALSE
    /\ sinkClosed' = sinkClosed \cup {asmWriter}
    /\ closeCalls' = [closeCalls EXCEPT ![asmWriter] = @ + 1]
    /\ asmWriter' = Nil
    /\ UNCHANGED <<writer, connection, opened, panicked>>

\* Socket.onWriteError: prod.connection.Close(); prod.connection = nil;
\* return false.  Close on a nil connection is a nil dereference.
onWriteError(ret) ==
    /\ ret = FALSE
    /\ IF connection = Nil
       THEN /\ panicked' = TRUE
            /\ UNCHANGED <<connection, sinkClosed, closeCalls>>
       ELSE /\ sinkClosed' = sinkClosed \cup {connection}
            /\ closeCalls' = [closeCalls EXCEPT ![connection] = @ + 1]
            /\ connection' = Nil
            /\ UNCHANGED panicked
    /\ UNCHANGED <<writer, asmWriter, opened>>

\* connection.Read(response): response is a buffer of len(acknowledge)
\* zero bytes; Read fails, or copies what the server has sent so far into
\* the front of the buffer.
NoRead == [err |-> FALSE, response |-> <<>>]

ZeroBuffer(n) == [i \in 1..n |-> "0"]

ReadInto(buf, sent) ==
    [i \in 1..Len(buf) |-> IF i <= Len(sent) THEN sent[i] ELSE buf[i]]

\* What the server may have sent: the acknowledge string, another answer,
\* or only the first byte of the acknowledge string.
ServerAnswers == {acknowledge, <<"N", "O">>, SubSeq(acknowledge, 1, 1)}

ReadResults ==
    {[err |-> TRUE, response |-> ZeroBuffer(Len(acknowledge))]}
        \cup {[err |-> FALSE, response |-> ReadInto(ZeroBuffer(Len(acknowledge)), sent)] :
                sent \in ServerAnswers}

\* The reads validate can make: none with an empty acknowledge string.
ValidateReads == IF acknowledge = <<>> THEN {NoRead} ELSE ReadResults

\* Variant of validate that accepts whatever was read without an error.
validate_AnyAnswer(r) ==
    IF acknowledge = <<>> THEN TRUE
    ELSE IF r.err THEN FALSE
    ELSE TRUE

\* Socket.validate, r being the result of its Read.
validate(r) ==
    IF acknowledge = <<>> THEN TRUE
    ELSE IF r.err THEN FALSE
    ELSE r.response = acknowledge

\* The validator of the assembly: the Socket producer sets validate, the
\* BatchedWriterAssembly sets none.
Validates == kind = "socket"

HandleError(ret) ==
    IF kind = "socket" THEN onWriteError(ret) ELSE DefaultErrorHandler(ret)

\* The flush in flight handles the next message of its snapshot.
\*   Flush (drop path): the message goes to the fallback, no sink is used.
\*   Write: the message is written to the assembly's sink and the validator
\*   is asked; on a failed write or validation the error handler runs, and
\*   unless it reports the message as delivered the message and the
\*   unwritten rest of the snapshot go to the fallback.
FlushStep ==
    /\ ~panicked
    /\ flight # <<>>
    /\ LET m == Head(flight)
           rest == Tail(flight)
           fnAfter(r) == IF r = <<>> THEN "none" ELSE flightFn
       IN  IF flightFn = "Flush" \/ asmWriter = Nil
           THEN /\ dropped' = Append(dropped, m)
                /\ flight' = rest
                /\ flightFn' = fnAfter(rest)
                /\ lastRead' = NoRead
                /\ UNCHANGED <<written, sinkVars, panicked>>
           ELSE \E o \in WriteResults(asmWriter) :
                \E r \in (IF o = "ok" /\ Validates THEN ValidateReads ELSE {NoRead}) :
                  IF o = "ok" /\ Validates /\ acknowledge # <<>> /\ connection = Nil
                  THEN /\ panicked' = TRUE
                       /\ UNCHANGED <<flight, flightFn, written, dropped, lastRead, sinkVars>>
                  ELSE
                  IF o = "ok" /\ (Validates => validate(r))
                  THEN /\ written' = Append(written, <<m, asmWriter>>)
                       /\ flight' = rest
                       /\ flightFn' = fnAfter(rest)
                       /\ lastRead' = r
                       /\ UNCHANGED <<dropped, sinkVars, panicked>>
                  ELSE \E ret \in BOOLEAN :
                       /\ HandleError(ret)
                       /\ lastRead' = r
                       /\ IF panicked'
                          THEN UNCHANGED <<flight, flightFn, written, dropped>>
                          ELSE IF ret
                          THEN /\ written' = Append(written, <<m, asmWriter>>)
                               /\ flight' = rest
                               /\ flightFn' = fnAfter(rest)
                               /\ UNCHANGED dropped
                          ELSE /\ dropped' = dropped \o flight
                               /\ flight' = <<>>
                               /\ flightFn' = "none"
                               /\ UNCHANGED written
    /\ lastOp' = "-"
    /\ UNCHANGED <<cfgVars, queue, closed, messagesSinceFlush, elapsed, blockedFn>>
    /\ UNCHANGED <<state, pc, waited, pending, nextMsg, atClose, workerDone>>
    /\ UNCHANGED nullVars

\* A clock tick: time since the last flush and time spent waiting advance.
Waiting == pc \in {"closing", "wait1", "wait2"}

Advance ==
    /\ ~panicked
    /\ elapsed < batchTimeout \/ (Waiting /\ waited < flushTimeout)
    /\ elapsed' = MinI(elapsed + 1, batchTimeout)
    /\ waited' = IF Waiting /\ waited < flushTimeout THEN waited + 1 ELSE waited
    /\ lastOp' = "-"
    /\ UNCHANGED <<cfgVars, queue, closed, flight, flightFn, messagesSinceFlush, blockedFn>>
    /\ UNCHANGED <<sinkVars, logVars>>
    /\ UNCHANGED <<state, pc, pending, nextMsg, atClose, workerDone, panicked>>
    /\ UNCHANGED nullVars

\* ------------------------------------------- BatchedWriterAssembly
\* Its methods are called by one goroutine: pc is "idle" between calls,
\* "flushWait" / "closeFlushWait" while the call waits inside Batch.Flush /
\* Batch.Close for the flush in flight, "closing" while Batch.Close waits for
\* its own flush to complete.
HasWriter == writer # Nil

GetWriter == writer

\* SetWriter(writer): the caller hands over a writer it has just created.
SetWriter(w) ==
    /\ kind = "bwa" /\ pc = "idle" /\ ~panicked
    /\ w = opened + 1
    /\ opened' = w
    /\ writer' = w
    /\ lastOp' = "-"
    /\ UNCHANGED <<cfgVars, batchVars, connection, asmWriter, sinkClosed, closeCalls, ctlVars, logVars>>
    /\ UNCHANGED nullVars

\* UnsetWriter / GetWriterAndUnset
UnsetWriter ==
    /\ kind = "bwa" /\ pc = "idle" /\ ~panicked
    /\ HasWriter
    /\ writer' = Nil
    /\ lastOp' = "-"
    /\ UNCHANGED <<cfgVars, batchVars, connection, asmWriter, opened, sinkClosed, closeCalls, ctlVars, logVars>>
    /\ UNCHANGED nullVars

\* Batch.Append by the owner of the assembly; a refused message stays with
\* the caller.
BwaAppend ==
    /\ kind = "bwa" /\ pc = "idle" /\ ~panicked
    /\ nextMsg <= MaxMsgs
    /\ CanAppend
    /\ BatchAppend(nextMsg)
    /\ nextMsg' = nextMsg + 1
    /\ lastOp' = "-"
    /\ UNCHANGED <<cfgVars, sinkVars, logVars>>
    /\ UNCHANGED <<state, pc, waited, pending, atClose, workerDone, panicked>>
    /\ UNCHANGED nullVars

\* Variant of BwaFlushBody that forgets assembly.SetWriter.
BwaFlushBody_NoSetWriter ==
    IF writer # Nil
    THEN UNCHANGED asmWriter /\ BatchFlush("bwa", "Write")
    ELSE UNCHANGED asmWriter /\ BatchFlush("bwa", "Flush")

\* Flush(): with a writer the assembly is pointed at it and the batch goes
\* through assembly.Write, without one through assembly.Flush.
BwaFlushBody ==
    IF writer # Nil
    THEN AsmSetWriter(writer) /\ BatchFlush("bwa", "Write")
    ELSE UNCHANGED asmWriter /\ BatchFlush("bwa", "Flush")

Flush ==
    /\ kind = "bwa" /\ pc = "idle" /\ ~panicked
    /\ BwaFlushBody
    /\ pc' = IF flight = <<>> THEN "idle" ELSE "flushWait"
    /\ lastOp' = "Flush"
    /\ UNCHANGED <<cfgVars, closed, writer, connection, opened, sinkClosed, closeCalls, logVars>>
    /\ UNCHANGED <<state, waited, pending, nextMsg, atClose, workerDone, panicked>>
    /\ UNCHANGED nullVars

\* Variant of FlushOnTimeOutCond that forgets the size threshold.
FlushOnTimeOutCond_TimeOnly == ReachedTimeThreshold(batchTimeout)

FlushOnTimeOutCond ==
    ReachedTimeThreshold(batchTimeout) \/ ReachedSizeThreshold(batchFlushCount)

FlushOnTimeOut ==
    /\ kind = "bwa" /\ pc = "idle" /\ ~panicked
    /\ IF FlushOnTimeOutCond
       THEN /\ BwaFlushBody
            /\ pc' = IF flight = <<>> THEN "idle" ELSE "flushWait"
            /\ lastOp' = "FlushOnTimeOut:flush"
       ELSE /\ UNCHANGED <<snapVars, blockedFn, asmWriter, pc>>
            /\ lastOp' = "FlushOnTimeOut:skip"
    /\ UNCHANGED <<cfgVars, closed, writer, connection, opened, sinkClosed, closeCalls, logVars>>
    /\ UNCHANGED <<state, waited, pending, nextMsg, atClose, workerDone, panicked>>
    /\ UNCHANGED nullVars

\* Close(), up to the wait inside Batch.Close: the batch is marked closed and
\* flushed through the same branch as in Flush.
CloseBegin ==
    /\ kind = "bwa" /\ pc = "idle" /\ ~panicked
    /\ writer # Nil => closeCalls[writer] < MaxCloses
    /\ closed' = TRUE
    /\ BwaFlushBody
    /\ pc' = IF flight = <<>> THEN "closing" ELSE "closeFlushWait"
    /\ waited' = 0
    /\ lastOp' = "-"
    /\ UNCHANGED <<cfgVars, writer, connection, opened, sinkClosed, closeCalls, logVars>>
    /\ UNCHANGED <<state, pending, nextMsg, atClose, workerDone, panicked>>
    /\ UNCHANGED nullVars

\* The flush in flight is over: the waiting Batch.Flush / Batch.Close call
\* takes its snapshot.
BwaFlushResume ==
    /\ kind = "bwa" /\ pc \in {"flushWait", "closeFlushWait"} /\ ~panicked
    /\ BatchFlushResume("bwa")
    /\ pc' = IF pc = "flushWait" THEN "idle" ELSE "closing"
    /\ waited' = 0
    /\ lastOp' = "-"
    /\ UNCHANGED <<cfgVars, closed, sinkVars, logVars>>
    /\ UNCHANGED <<state, pending, nextMsg, atClose, workerDone, panicked>>
    /\ UNCHANGED nullVars

\* Variant of CloseEnd that clears the writer after closing it.
CloseEnd_UnsetsWriter ==
    /\ kind = "bwa" /\ pc = "closing" /\ ~panicked
    /\ WaitOver
    /\ pc' = "idle"
    /\ IF writer = Nil
       THEN panicked' = TRUE /\ UNCHANGED <<sinkClosed, closeCalls>>
       ELSE /\ sinkClosed' = sinkClosed \cup {writer}
            /\ closeCalls' = [closeCalls EXCEPT ![writer] = @ + 1]
            /\ UNCHANGED panicked
    /\ writer' = Nil
    /\ lastOp' = "-"
    /\ UNCHANGED <<cfgVars, batchVars, connection, asmWriter, opened, logVars>>
    /\ UNCHANGED <<state, waited, pending, nextMsg, atClose, workerDone>>
    /\ UNCHANGED nullVars

\* Close(), after Batch.Close returned: bwa.writer.Close() is called without
\* a nil check.
CloseEnd ==
    /\ kind = "bwa" /\ pc = "closing" /\ ~panicked
    /\ WaitOver
    /\ pc' = "idle"
    /\ IF writer = Nil
       THEN panicked' = TRUE /\ UNCHANGED <<sinkClosed, closeCalls>>
       ELSE /\ sinkClosed' = sinkClosed \cup {writer}
            /\ closeCalls' = [closeCalls EXCEPT ![writer] = @ + 1]
            /\ UNCHANGED panicked
    /\ lastOp' = "-"
    /\ UNCHANGED <<cfgVars, batchVars, writer, connection, asmWriter, opened, logVars>>
    /\ UNCHANGED <<state, waited, pending, nextMsg, atClose, workerDone>>
    /\ UNCHANGED nullVars

\* --------------------------------------------------- Socket producer
\* The ticker callback and the control commands run in the producer's main
\* loop (pc), messages arrive on the append path beside it.
DefaultBatchMaxCount == 8192

\* conf.GetInt(key, default)
GetInt(v, default) == IF v = Absent THEN default ELSE v

\* ProducerBase.IsActive
IsActive == state = "Active"

\* shared.Unescape, for the escape sequence \n: the two characters
\* backslash, n become a line feed.
RECURSIVE Unescape(_)
Unescape(str) ==
    IF str = <<>> THEN <<>>
    ELSE IF Len(str) >= 2 /\ str[1] = "\\" /\ str[2] = "n"
         THEN <<"\n">> \o Unescape(SubSeq(str, 3, Len(str)))
         ELSE <<str[1]>> \o Unescape(Tail(str))

\* Values of the Acknowledge setting.
AckSettings == {<<>>, <<"O", "K">>}

\* Variant of Configure that forgets to clamp BatchFlushCount.
Configure_NoClamp(baseErr, maxCfg, flushCfg, timeoutCfg, shutdownCfg, ackCfg) ==
    /\ kind = "socket" /\ state = "Unconfigured"
    /\ IF baseErr
       THEN /\ state' = "ConfigError"
            /\ UNCHANGED <<batchMaxCount, batchFlushCount, batchTimeout, flushTimeout, acknowledge>>
       ELSE /\ state' = "Configured"
            /\ batchMaxCount' = GetInt(maxCfg, DefaultBatchMaxCount)
            /\ batchFlushCount' = GetInt(flushCfg, batchMaxCount' \div 2)
            /\ batchTimeout' = timeoutCfg
            /\ flushTimeout' = shutdownCfg
            /\ acknowledge' = Unescape(ackCfg)
    /\ lastOp' = "-"
    /\ UNCHANGED <<kind, batchVars, sinkVars, logVars>>
    /\ UNCHANGED <<pc, waited, pending, nextMsg, atClose, workerDone, panicked>>
    /\ UNCHANGED nullVars

\* Configure: the batch sizes are taken as configured; nothing is validated
\* and nil is returned unless ProducerBase.Configure failed.
Configure(baseErr, maxCfg, flushCfg, timeoutCfg, shutdownCfg, ackCfg) ==
    /\ kind = "socket" /\ state = "Unconfigured"
    /\ IF baseErr
       THEN /\ state' = "ConfigError"
            /\ UNCHANGED <<batchMaxCount, batchFlushCount, batchTimeout, flushTimeout, acknowledge>>
       ELSE /\ state' = "Configured"
            /\ batchMaxCount' = GetInt(maxCfg, DefaultBatchMaxCount)
            /\ batchFlushCount' = MinI(GetInt(flushCfg, batchMaxCount' \div 2), batchMaxCount')
            /\ batchTimeout' = timeoutCfg
            /\ flushTimeout' = shutdownCfg
            /\ acknowledge' = Unescape(ackCfg)
    /\ lastOp' = "-"
    /\ UNCHANGED <<kind, batchVars, sinkVars, logVars>>
    /\ UNCHANGED <<pc, waited, pending, nextMsg, atClose, workerDone, panicked>>
    /\ UNCHANGED nullVars

\* Produce: the plugin is started and enters its main loop.
Produce ==
    /\ kind = "socket" /\ state = "Configured"
    /\ state' = "Active"
    /\ pc' = "run"
    /\ lastOp' = "-"
    /\ UNCHANGED <<cfgVars, batchVars, sinkVars, logVars>>
    /\ UNCHANGED <<waited, pending, nextMsg, atClose, workerDone, panicked>>
    /\ UNCHANGED nullVars

\* net.Dial can succeed only while the sink is reachable.
DialResults == IF connection = Nil /\ opened < MaxSinks THEN BOOLEAN ELSE {FALSE}

\* Variant of sendBatch that writes to the connection whatever the state.
sendBatch_AlwaysWrite(c, dialOk) ==
    /\ IF connection = Nil /\ dialOk
       THEN /\ opened' = opened + 1
            /\ connection' = opened + 1
            /\ AsmSetWriter(opened + 1)
       ELSE UNCHANGED <<opened, connection, asmWriter>>
    /\ IF connection' # Nil
       THEN BatchFlush(c, "Write")
       ELSE UNCHANGED <<snapVars, blockedFn>>
    /\ UNCHANGED <<writer, sinkClosed, closeCalls>>

\* Variant of sendBatch that flushes without a connection too.
sendBatch_FlushUnconnected(c, dialOk) ==
    /\ IF connection = Nil /\ dialOk
       THEN /\ opened' = opened + 1
            /\ connection' = opened + 1
            /\ AsmSetWriter(opened + 1)
       ELSE UNCHANGED <<opened, connection, asmWriter>>
    /\ BatchFlush(c, IF IsActive /\ connection' # Nil THEN "Write" ELSE "Flush")
    /\ UNCHANGED <<writer, sinkClosed, closeCalls>>

\* sendBatch called by c: connect if there is no connection; with a
\* connection flush through assembly.Write when active and through
\* assembly.Flush otherwise; without one leave the batch alone.
sendBatch(c, dialOk) ==
    /\ IF connection = Nil /\ dialOk
       THEN /\ opened' = opened + 1
            /\ connection' = opened + 1
            /\ AsmSetWriter(opened + 1)
       ELSE UNCHANGED <<opened, connection, asmWriter>>
    /\ IF connection' # Nil
       THEN BatchFlush(c, IF IsActive THEN "Write" ELSE "Flush")
       ELSE UNCHANGED <<snapVars, blockedFn>>
    /\ UNCHANGED <<writer, sinkClosed, closeCalls>>

sendBatchOnTimeOutCond ==
    ReachedTimeThreshold(batchTimeout) \/ ReachedSizeThreshold(batchFlushCount)

\* The ticker callback.
sendBatchOnTimeOut ==
    /\ kind = "socket" /\ pc = "run" /\ ~panicked
    /\ blockedFn["tick"] = "none"
    /\ IF sendBatchOnTimeOutCond
       THEN /\ \E dialOk \in DialResults : sendBatch("tick", dialOk)
            /\ lastOp' = "sendBatchOnTimeOut:sendBatch"
       ELSE /\ UNCHANGED <<snapVars, blockedFn, sinkVars>>
            /\ lastOp' = "sendBatchOnTimeOut:skip"
    /\ UNCHANGED <<cfgVars, closed, ctlVars, logVars>>
    /\ UNCHANGED nullVars

\* The Flush call of the ticker callback stops waiting.
tickFlushResume ==
    /\ kind = "socket" /\ ~panicked
    /\ BatchFlushResume("tick")
    /\ lastOp' = "-"
    /\ UNCHANGED <<cfgVars, closed, sinkVars, ctlVars, logVars>>
    /\ UNCHANGED nullVars

\* After trySend in AppendRetry: retry while active, else hand m to Drop.
AppendRetryGiveUp(m) ==
    IF IsActive
    THEN pending' = m /\ UNCHANGED dropped
    ELSE pending' = Nil /\ dropped' = Append(dropped, m)

\* sendMessage: one round of batch.AppendRetry(msg, sendBatch, IsActive, Drop)
\* for the message being retried, or else for the next message to arrive.
sendMessage ==
    /\ kind = "socket" /\ ~panicked
    /\ state \in {"Active", "Stopping", "Stopped"}
    /\ blockedFn["msg"] = "none"
    /\ pending # Nil \/ (pc \in {"run", "graceful"} /\ nextMsg <= MaxMsgs)
    /\ LET m == IF pending # Nil THEN pending ELSE nextMsg
       IN  /\ nextMsg' = IF pending # Nil THEN nextMsg ELSE nextMsg + 1
           /\ IF CanAppend
              THEN /\ BatchAppend(m)
                   /\ pending' = Nil
                   /\ UNCHANGED <<sinkVars, dropped>>
              ELSE /\ \E dialOk \in DialResults : sendBatch("msg", dialOk)
                   /\ UNCHANGED closed
                   /\ IF blockedFn'["msg"] # "none"
                      THEN pending' = m /\ UNCHANGED dropped
                      ELSE AppendRetryGiveUp(m)
    /\ lastOp' = "-"
    /\ UNCHANGED <<cfgVars, written, lastRead>>
    /\ UNCHANGED <<state, pc, waited, atClose, workerDone, panicked>>
    /\ UNCHANGED nullVars

\* The Flush call made by trySend stops waiting; AppendRetry goes on.
msgFlushResume ==
    /\ kind = "socket" /\ ~panicked
    /\ BatchFlushResume("msg")
    /\ AppendRetryGiveUp(pending)
    /\ lastOp' = "-"
    /\ UNCHANGED <<cfgVars, closed, sinkVars, written, lastRead>>
    /\ UNCHANGED <<state, pc, waited, nextMsg, atClose, workerDone, panicked>>
    /\ UNCHANGED nullVars

\* A stop command reaches the main loop: the state becomes Stopping and the
\* stop callback (close) starts.
Stop ==
    /\ kind = "socket" /\ pc = "run" /\ ~panicked
    /\ blockedFn["tick"] = "none"
    /\ state' = "Stopping"
    /\ pc' = "graceful"
    /\ atClose' = queue
    /\ lastOp' = "-"
    /\ UNCHANGED <<cfgVars, batchVars, sinkVars, logVars>>
    /\ UNCHANGED <<waited, pending, nextMsg, workerDone, panicked>>
    /\ UNCHANGED nullVars

\* prod.WorkerDone(): the producer has stopped.
WorkerDone ==
    /\ workerDone' = workerDone + 1
    /\ state' = "Stopped"
    /\ pc' = "done"

\* Variant of closeDeferred that forgets to close the connection.
closeDeferred_NoClose ==
    /\ WorkerDone
    /\ UNCHANGED <<batchVars, sinkVars, waited>>

\* close(), deferred function, the nil check: with a connection the call of
\* its Close follows (closeDeferredClose), without one WorkerDone.
closeDeferred ==
    /\ IF connection # Nil
       THEN pc' = "deferClose" /\ UNCHANGED <<workerDone, state>>
       ELSE WorkerDone
    /\ UNCHANGED <<batchVars, sinkVars, waited>>

\* close(), deferred function, prod.connection.Close(): the field is read
\* again; the error handler of a flush in flight may have set it to nil.
closeDeferredClose ==
    /\ kind = "socket" /\ pc = "deferClose" /\ ~panicked
    /\ IF connection = Nil
       THEN /\ panicked' = TRUE
            /\ UNCHANGED <<sinkClosed, closeCalls, workerDone, state, pc>>
       ELSE /\ sinkClosed' = sinkClosed \cup {connection}
            /\ closeCalls' = [closeCalls EXCEPT ![connection] = @ + 1]
            /\ WorkerDone
            /\ UNCHANGED panicked
    /\ lastOp' = "-"
    /\ UNCHANGED <<cfgVars, batchVars, writer, connection, asmWriter, opened, logVars>>
    /\ UNCHANGED <<waited, pending, nextMsg, atClose>>
    /\ UNCHANGED nullVars

\* Variant of closeRest that leaves what is still in the buffer where it is.
closeRest_NoDrop == closeDeferred

\* close(), "Drop all data that is still in the buffer": a non-empty batch is
\* closed and flushed through assembly.Flush, then the flush is waited for.
closeRest ==
    IF ~IsEmpty
    THEN /\ closed' = TRUE
         /\ BatchFlush("ctl", "Flush")
         /\ pc' = IF flight = <<>> THEN "wait2" ELSE "flush2"
         /\ waited' = 0
         /\ UNCHANGED <<sinkVars, workerDone, state>>
    ELSE closeDeferred

\* close(): CloseGracefully(sendMessage) returns.  On success the batch is
\* closed, sendBatch is called and the flush is waited for; otherwise close
\* goes on to the rest of the buffer.
closeGraceful(ok) ==
    /\ kind = "socket" /\ pc = "graceful" /\ ~panicked
    /\ IF ok
       THEN /\ closed' = TRUE
            /\ \E dialOk \in DialResults : sendBatch("ctl", dialOk)
            /\ pc' = IF blockedFn'["ctl"] # "none" THEN "flush1" ELSE "wait1"
            /\ waited' = 0
            /\ UNCHANGED <<workerDone, state>>
       ELSE closeRest
    /\ lastOp' = "-"
    /\ UNCHANGED <<cfgVars, logVars, pending, nextMsg, atClose, panicked>>
    /\ UNCHANGED nullVars

\* A Flush call of close() stops waiting.
closeFlushResume ==
    /\ kind = "socket" /\ pc \in {"flush1", "flush2"} /\ ~panicked
    /\ BatchFlushResume("ctl")
    /\ pc' = IF pc = "flush1" THEN "wait1" ELSE "wait2"
    /\ waited' = 0
    /\ lastOp' = "-"
    /\ UNCHANGED <<cfgVars, closed, sinkVars, logVars>>
    /\ UNCHANGED <<state, pending, nextMsg, atClose, workerDone, panicked>>
    /\ UNCHANGED nullVars

\* close(): the first WaitForFlush(GetShutdownTimeout()) returns.
closeWaited ==
    /\ kind = "socket" /\ pc = "wait1" /\ ~panicked
    /\ WaitOver
    /\ closeRest
    /\ lastOp' = "-"
    /\ UNCHANGED <<cfgVars, logVars, pending, nextMsg, atClose, panicked>>
    /\ UNCHANGED nullVars

\* close(): the second WaitForFlush returns and the deferred function runs.
closeDropWaited ==
    /\ kind = "socket" /\ pc = "wait2" /\ ~panicked
    /\ WaitOver
    /\ closeDeferred
    /\ lastOp' = "-"
    /\ UNCHANGED <<cfgVars, logVars, pending, nextMsg, atClose, panicked>>
    /\ UNCHANGED nullVars

\* ----------------------------------------------------- Null producer
\* pc is "new" before Configure, "configured" / "configError" after it,
\* "produce" while Produce runs and "returned" after it has returned.
ControlCommands == {"StopProducer", "StopConsumer", "RollFile"}

MaxCommands == 3    \* control commands sent in one behaviour

\* Variant of NullGetState that follows the life cycle of Produce.
NullGetState_Tracks == IF pc = "returned" THEN "Stopped" ELSE "Active"

\* GetState always returns PluginStateActive.
NullGetState == "Active"

\* IsActive always returns true.
NullIsActive == TRUE

\* IsBlocked always returns false.
NullIsBlocked == FALSE

\* Configure: the control channel is made with room for one command and
\* the stream list is read; the configuration errors are returned.
NullConfigure(confErr, streamCfg) ==
    /\ kind = "null" /\ pc = "new"
    /\ control' = <<>>
    /\ streams' = IF streamCfg = <<>> THEN <<"conf.ID">> ELSE streamCfg
    /\ pc' = IF confErr THEN "configError" ELSE "configured"
    /\ lastOp' = "-"
    /\ UNCHANGED <<cfgVars, batchVars, sinkVars, logVars, commands>>
    /\ UNCHANGED <<state, waited, pending, nextMsg, atClose, workerDone, panicked>>

\* A command is sent on the channel returned by Control(); the send waits
\* while the one slot of the channel is taken.
NullControl(cmd) ==
    /\ kind = "null" /\ pc # "new"
    /\ Len(commands) < MaxCommands
    /\ Len(control) < 1
    /\ control' = Append(control, cmd)
    /\ commands' = Append(commands, cmd)
    /\ lastOp' = "-"
    /\ UNCHANGED <<cfgVars, batchVars, sinkVars, logVars, ctlVars, streams>>

\* Variant of NullEnqueue that keeps the message in a buffer.
NullEnqueue_Buffers(msg, timeout) ==
    /\ kind = "null"
    /\ msg = nextMsg /\ nextMsg <= MaxMsgs
    /\ nextMsg' = nextMsg + 1
    /\ queue' = Append(queue, msg)
    /\ lastOp' = "-"
    /\ UNCHANGED <<cfgVars, closed, flight, flightFn, messagesSinceFlush, elapsed, blockedFn>>
    /\ UNCHANGED <<sinkVars, logVars, nullVars>>
    /\ UNCHANGED <<state, pc, waited, pending, atClose, workerDone, panicked>>

\* Enqueue(msg, timeout): the message is ignored; only the count of the
\* messages that have arrived moves on.
NullEnqueue(msg, timeout) ==
    /\ kind = "null"
    /\ msg = nextMsg /\ nextMsg <= MaxMsgs
    /\ nextMsg' = nextMsg + 1
    /\ lastOp' = "-"
    /\ UNCHANGED <<cfgVars, batchVars, sinkVars, logVars, nullVars>>
    /\ UNCHANGED <<state, pc, waited, pending, atClose, workerDone, panicked>>

\* Produce is started.
NullProduce ==
    /\ kind = "null" /\ pc = "configured"
    /\ pc' = "produce"
    /\ lastOp' = "-"
    /\ UNCHANGED <<cfgVars, batchVars, sinkVars, logVars, nullVars>>
    /\ UNCHANGED <<state, waited, pending, nextMsg, atClose, workerDone, panicked>>

\* Produce, one round of its loop: a command is taken from the channel;
\* Produce returns if it is PluginControlStopConsumer and goes on otherwise.
NullProduceReceive ==
    /\ kind = "null" /\ pc = "produce"
    /\ control # <<>>
    /\ control' = Tail(control)
    /\ pc' = IF Head(control) = "StopConsumer" THEN "returned" ELSE "produce"
    /\ lastOp' = "-"
    /\ UNCHANGED <<cfgVars, batchVars, sinkVars, logVars, streams, commands>>
    /\ UNCHANGED <<state, waited, pending, nextMsg, atClose, workerDone, panicked>>

\* ------------------------------------------------------ specification
NoneBlocked == [c \in Callers |-> "none"]

InitCommon ==
    /\ queue = <<>> /\ closed = FALSE /\ flight = <<>> /\ flightFn = "none"
    /\ messagesSinceFlush = 0 /\ elapsed = 0 /\ blockedFn = NoneBlocked
    /\ writer = Nil /\ connection = Nil /\ asmWriter = Nil
    /\ opened = 0 /\ sinkClosed = {}
    /\ closeCalls = [s \in 1..MaxSinks |-> 0]
    /\ waited = 0 /\ pending = Nil /\ nextMsg = 1 /\ atClose = <<>>
    /\ written = <<>> /\ dropped = <<>>
    /\ lastRead = NoRead
    /\ workerDone = 0 /\ panicked = FALSE /\ lastOp = "-"
    /\ control = <<>> /\ streams = <<>> /\ commands = <<>>

\* NewBatchedWriterAssembly(batchMaxCount, batchTimeout, batchFlushCount, ...)
InitBwa ==
    /\ kind = "bwa"
    /\ batchMaxCount \in {MaxMsgs - 1, MaxMsgs}
    /\ batchFlushCount \in {1, MaxMsgs}
    /\ batchTimeout = MaxTicks
    /\ flushTimeout \in {0, MaxTicks}
    /\ acknowledge = <<>>
    /\ state = "Active" /\ pc = "idle"
    /\ InitCommon

\* A Socket producer before Configure.
InitSocket ==
    /\ kind = "socket"
    /\ batchMaxCount = 0 /\ batchFlushCount = 0 /\ batchTimeout = 0
    /\ flushTimeout = 0 /\ acknowledge = <<>>
    /\ state = "Unconfigured" /\ pc = "new"
    /\ InitCommon

\* A Null producer before Configure.
InitNull ==
    /\ kind = "null"
    /\ batchMaxCount = 0 /\ batchFlushCount = 0 /\ batchTimeout = 0
    /\ flushTimeout = 0 /\ acknowledge = <<>>
    /\ state = "None" /\ pc = "new"
    /\ InitCommon

Init == InitBwa \/ InitSocket \/ InitNull

NextBwa ==
    \/ FlushStep
    \/ Advance
    \/ \E w \in 1..MaxSinks : SetWriter(w)
    \/ UnsetWriter
    \/ BwaAppend
    \/ Flush
    \/ FlushOnTimeOut
    \/ CloseBegin
    \/ BwaFlushResume
    \/ CloseEnd

NextSocket ==
    \/ FlushStep
    \/ Advance
    \/ \E baseErr \in BOOLEAN, maxCfg \in {Absent, 0, 1, MaxMsgs - 1},
          flushCfg \in {Absent, 1, MaxMsgs + 1}, timeoutCfg \in {MaxTicks},
          shutdownCfg \in {0, MaxTicks}, ackCfg \in AckSettings :
            Configure(baseErr, maxCfg, flushCfg, timeoutCfg, shutdownCfg, ackCfg)
    \/ Produce
    \/ sendBatchOnTimeOut
    \/ tickFlushResume
    \/ sendMessage
    \/ msgFlushResume
    \/ Stop
    \/ \E ok \in BOOLEAN : closeGraceful(ok)
    \/ closeFlushResume
    \/ closeWaited
    \/ closeDropWaited
    \/ closeDeferredClose

NextNull ==
    \/ \E confErr \in BOOLEAN, streamCfg \in {<<>>, <<"s1">>} :
          NullConfigure(confErr, streamCfg)
    \/ \E cmd \in ControlCommands : NullControl(cmd)
    \/ \E msg \in 1..MaxMsgs, timeout \in {Absent, 0, MaxTicks} :
          NullEnqueue(msg, timeout)
    \/ NullProduce
    \/ NullProduceReceive

Next == NextBwa \/ NextSocket \/ NextNull

SpecBwa == InitBwa /\ [][NextBwa]_vars

SpecSocket == InitSocket /\ [][NextSocket]_vars

SpecNull == InitNull /\ [][NextNull]_vars

\* The Socket producer with its goroutines scheduled fairly: a flush in
\* flight goes on, and a Flush call that can stop waiting does so.
SpecSocketFair ==
    /\ SpecSocket
    /\ WF_vars(FlushStep)
    /\ WF_vars(msgFlushResume)

Spec == Init /\ [][Next]_vars

\* Socket.Configure alone, over a range of configured batch sizes.
MaxConfigValue == 6

ConfigValues == {Absent} \cup 0..MaxConfigValue

NextConfigure ==
    \E baseErr \in BOOLEAN, maxCfg \in ConfigValues, flushCfg \in ConfigValues,
       timeoutCfg \in {MaxTicks}, shutdownCfg \in {0, MaxTicks},
       ackCfg \in AckSettings \cup {<<"K", "\\", "n">>} :
         Configure(baseErr, maxCfg, flushCfg, timeoutCfg, shutdownCfg, ackCfg)

SpecConfigure == InitSocket /\ [][NextConfigure]_vars

\* -------------------------------------------------------------- claims
\* A Flush call of caller c with writeFn fn takes the whole batch as its
\* snapshot at once, or waits for the flush in flight.
Handed(c, fn) ==
    IF flight = <<>>
    THEN flight' = queue /\ queue' = <<>> /\ (queue # <<>> => flightFn' = fn)
    ELSE blockedFn'[c] = fn /\ UNCHANGED <<queue, flight, flightFn>>

\* C1: BatchedWriterAssembly.Flush with a writer set points the assembly at
\* exactly that writer and hands every buffered message to assembly.Write;
\* with no writer it hands every buffered message to assembly.Flush, the drop
\* path, which writes to no sink.  When the call returns nothing that was
\* buffered is still in the batch, and a message is only ever written to the
\* sink the assembly points at.
C1_FlushRouting ==
    [][ /\ Flush =>
             /\ writer # Nil => asmWriter' = writer /\ Handed("bwa", "Write")
             /\ writer = Nil => UNCHANGED asmWriter /\ Handed("bwa", "Flush")
             /\ UNCHANGED <<written, dropped>>
        /\ BwaFlushResume =>
             /\ flight' = queue /\ queue' = <<>>
             /\ queue # <<>> => flightFn' = blockedFn["bwa"]
        /\ kind = "bwa" /\ flightFn = "Flush" => UNCHANGED written
        /\ kind = "bwa" /\ written' # written =>
             written' = Append(written, <<Head(flight), asmWriter>>)
      ]_vars

\* C1 witness: Flush has just handed a non-empty batch to the drop path with
\* no writer set, after an earlier flush wrote to a writer.
C1_Witness ==
    /\ kind = "bwa" /\ lastOp = "Flush"
    /\ writer = Nil /\ flight # <<>> /\ flightFn = "Flush" /\ queue = <<>>
    /\ written # <<>>

\* C2: BatchedWriterAssembly.Close completes normally in every state,
\* including when no writer is set: the step that closes the sink never
\* faults.
C2_CloseCompletes == ~(kind = "bwa" /\ panicked)

\* The thresholds of the ticker callbacks, read from the batch.
C3_Threshold == elapsed >= batchTimeout \/ messagesSinceFlush >= batchFlushCount

\* C3: a ticker callback (FlushOnTimeOut, sendBatchOnTimeOut) triggers a
\* flush if and only if the time threshold or the size threshold is reached;
\* when neither is, the batch, the writer, the connection, the sinks and the
\* counters are left as they were.
C3_TickFlushesIffThreshold ==
    [][ /\ lastOp' = "FlushOnTimeOut:flush" =>
             /\ C3_Threshold
             /\ Handed("bwa", IF writer # Nil THEN "Write" ELSE "Flush")
        /\ lastOp' = "sendBatchOnTimeOut:sendBatch" =>
             /\ C3_Threshold
             /\ connection' # Nil => Handed("tick", "Write")
        /\ lastOp' \in {"FlushOnTimeOut:skip", "sendBatchOnTimeOut:skip"} =>
             /\ ~C3_Threshold
             /\ UNCHANGED <<batchVars, sinkVars, logVars, cfgVars, ctlVars>>
      ]_vars

\* C3 witness: the ticker fired on a batch that had reached a threshold and
\* the batch is in flight towards the sink.
C3_Witness ==
    /\ lastOp \in {"FlushOnTimeOut:flush", "sendBatchOnTimeOut:sendBatch"}
    /\ flight # <<>> /\ flightFn = "Write" /\ queue = <<>>

\* C4: graceful shutdown of a Socket producer with a connected sink: when
\* CloseGracefully succeeds, the messages still buffered are flushed through
\* the writing path (assembly.Write).
C4_GracefulFlushWrites ==
    [][ closeGraceful(TRUE) /\ connection # Nil /\ queue # <<>>
          => Handed("ctl", "Write") ]_vars

ClosePositions == {"graceful", "flush1", "wait1", "flush2", "wait2", "deferClose"}

\* C5: Socket.close always terminates and the producer reaches Stopped:
\* once close has started, nothing keeps it from running to its end.
C5_CloseTerminates == ~(kind = "socket" /\ pc \in ClosePositions /\ panicked)

Count(seq, m) == Cardinality({i \in DOMAIN seq : seq[i] = m})

WrittenMsgs == [i \in DOMAIN written |-> written[i][1]]

TimesHanded(m) == Count(WrittenMsgs, m) + Count(dropped, m)

\* Every message that was in the batch when close started has been handed
\* to the write path or to the drop path exactly once, and the batch is empty.
C6_AllHanded ==
    /\ queue = <<>>
    /\ \A i \in DOMAIN atClose : TimesHanded(atClose[i]) = 1

C7_CloseReleases ==
    [][ kind = "socket" =>
        /\ pc # "done" /\ pc' = "done" =>
             /\ pc \in {"graceful", "wait1", "wait2", "deferClose"}
             /\ workerDone = 0 /\ workerDone' = 1
             /\ state' = "Stopped"
             /\ connection # Nil => connection \in sinkClosed'
        /\ workerDone' # workerDone => pc # "done" /\ pc' = "done"
        /\ sinkClosed' # sinkClosed /\ pc' # "done" =>
             connection # Nil /\ connection' = Nil
      ]_vars

\* C7 witness: close has returned after dropping buffered messages, the
\* connection is closed and WorkerDone was signalled once.
C7_Witness ==
    /\ kind = "socket" /\ pc = "done" /\ workerDone = 1
    /\ connection # Nil /\ connection \in sinkClosed
    /\ atClose # <<>> /\ dropped # <<>>

\* C8: no write is ever issued while the producer's connection is nil: a
\* flush that writes runs only with a connection.
C8_NoWriteWhileNil ==
    [][ kind = "socket" /\ FlushStep /\ flightFn = "Write" /\ asmWriter # Nil
          => connection # Nil ]_vars

\* C9: when a write of a flush snapshot fails on a message, the error
\* handler invalidates the sink without a fault, and that message and the rest
\* of the snapshot go to the drop path, each once.
C9_PartialFailure ==
    [][ kind = "socket" /\ FlushStep /\ flightFn = "Write" /\ asmWriter # Nil
          /\ written' = written
          => /\ ~panicked'
             /\ connection' = Nil
             /\ dropped' = dropped \o flight
             /\ flight' = <<>> ]_vars

\* C10: a Socket producer configured with zero batch capacity never becomes
\* Active.
C10_ZeroCapacityRejected ==
    ~(kind = "socket" /\ state = "Active" /\ batchMaxCount = 0)


\* C11: after Socket.Configure batchFlushCount <= batchMaxCount.
\* BatchMaxCount defaults to 8192; BatchFlushCount defaults to
\* BatchMaxCount / 2 (integer division) when absent, a configured value above
\* BatchMaxCount is replaced by BatchMaxCount, and a configured value at or
\* below BatchMaxCount is kept.
C11_FlushCountClamped ==
    [][ \A maxCfg \in ConfigValues, flushCfg \in ConfigValues,
           shutdownCfg \in {0, MaxTicks}, ackCfg \in AckSettings :
          Configure(FALSE, maxCfg, flushCfg, MaxTicks, shutdownCfg, ackCfg) =>
            /\ batchFlushCount' <= batchMaxCount'
            /\ maxCfg = Absent => batchMaxCount' = 8192
            /\ maxCfg # Absent => batchMaxCount' = maxCfg
            /\ flushCfg = Absent => batchFlushCount' = batchMaxCount' \div 2
            /\ flushCfg # Absent /\ flushCfg > batchMaxCount' =>
                 batchFlushCount' = batchMaxCount'
            /\ flushCfg # Absent /\ flushCfg <= batchMaxCount' =>
                 batchFlushCount' = flushCfg
      ]_vars

\* C11 witness: a producer configured with neither key set: both defaults.
C11_Witness ==
    /\ kind = "socket" /\ state = "Configured"
    /\ batchMaxCount = 8192 /\ batchFlushCount = 4096


\* ---------------------------------------------------------------- C12
\* What the producer reports through GetState and IsActive.
ProduceReturned ==
    \/ kind = "null" /\ pc = "returned"
    \/ kind = "socket" /\ pc = "done"

GetStateReported == IF kind = "null" THEN NullGetState ELSE state

IsActiveReported == IF kind = "null" THEN NullIsActive ELSE IsActive

\* C12: whenever Produce has returned the producer is Stopped: GetState
\* does not report Active and IsActive is false, for Null and Socket alike.
C12_ReturnedIsStopped ==
    ProduceReturned =>
        /\ GetStateReported = "Stopped"
        /\ GetStateReported # "Active"
        /\ ~IsActiveReported

\* ---------------------------------------------------------------- C13
\* C13: a round of Null.Produce that receives StopProducer makes Produce
\* return, and Produce returns only on a round that received StopProducer.
C13_StopProducerReturns ==
    [][ NullProduceReceive =>
          (Head(control) = "StopProducer" <=> pc' = "returned") ]_vars

\* ---------------------------------------------------------------- C14
\* C14: in every reachable state the Null producer reports GetState =
\* Active, IsActive = true and IsBlocked = false.
C14_NullReportsConstant ==
    kind = "null" =>
        /\ NullGetState = "Active"
        /\ NullIsActive
        /\ ~NullIsBlocked

C14_Witness ==
    /\ kind = "null" /\ pc = "returned"
    /\ NullGetState = "Active"

\* ---------------------------------------------------------------- C15
\* C15: Null.Enqueue can be taken whenever a message arrives, in every
\* position of Produce and with any content of the control channel, and it
\* leaves the control channel, the stream list, the reported state and
\* everything else of the producer unchanged.
C15_EnqueueNoEffect ==
    /\ [](kind = "null" /\ nextMsg <= MaxMsgs =>
            \A timeout \in {Absent, 0, MaxTicks} :
                ENABLED NullEnqueue(nextMsg, timeout))
    /\ [][ \A msg \in 1..MaxMsgs, timeout \in {Absent, 0, MaxTicks} :
             NullEnqueue(msg, timeout) =>
                /\ UNCHANGED <<control, streams, commands>>
                /\ UNCHANGED <<pc, state, batchVars, sinkVars, logVars>>
                /\ NullGetState' = NullGetState
         ]_vars

C15_Witness ==
    /\ kind = "null" /\ pc = "produce"
    /\ control # <<>>
    /\ nextMsg > 1


\* ---------------------------------------------------------------- C16
BatchFull == Len(queue) >= batchMaxCount

Buffered(m) == Count(queue, m) + Count(flight, m)

StrictlyIncreasing(seq) ==
    \A i, j \in DOMAIN seq : i < j => seq[i] < seq[j]

HandedMsgs == {m \in 1..MaxMsgs : TimesHanded(m) > 0}

\* C17: the messages appended to the batch of a BatchedWriterAssembly are
\* buffered in append order; Flush takes all of them, in that order, as its
\* snapshot; the flush hands the snapshot to the write function from the
\* front, so every message is handed over once and after all messages
\* appended before it.
C17_FifoFlush ==
    /\ [](kind = "bwa" =>
            /\ StrictlyIncreasing(flight \o queue)
            /\ \A m \in 1..MaxMsgs : TimesHanded(m) <= 1
            /\ \A i \in DOMAIN (flight \o queue) :
                  /\ TimesHanded((flight \o queue)[i]) = 0
                  /\ \A h \in HandedMsgs : h < (flight \o queue)[i])
    /\ [][ /\ (Flush /\ flight = <<>>) => (flight' = queue /\ queue' = <<>>)
           /\ (kind = "bwa" /\ FlushStep) =>
                \E k \in 1..Len(flight) :
                   /\ flight' = SubSeq(flight, k + 1, Len(flight))
                   /\ \/ /\ k = 1
                         /\ WrittenMsgs' = Append(WrittenMsgs, Head(flight))
                         /\ dropped' = dropped
                      \/ /\ written' = written
                         /\ dropped' = dropped \o SubSeq(flight, 1, k)
         ]_vars

C17_Witness ==
    /\ kind = "bwa" /\ batchMaxCount = MaxMsgs
    /\ WrittenMsgs = <<1, 2>> /\ dropped = <<>>
    /\ flight = <<3>> /\ queue = <<>>


\* ---------------------------------------------------------------- C18
\* Messages 1..nextMsg-1 have arrived; the one in pending is still with its
\* appender.
Appended(m) == m < nextMsg /\ m # pending

TickFlushed ==
    /\ sendBatchOnTimeOut
    /\ lastOp' = "sendBatchOnTimeOut:sendBatch"
    /\ connection' # Nil /\ blockedFn'["tick"] = "none"
    /\ queue # <<>>

\* C19: ReachedSizeThreshold(n) is true exactly when at least n messages
\* were appended since the last flush, hence false immediately after a
\* flush, for every batchFlushCount that Configure can produce.
C19_FalseAfterFlush ==
    /\ [](kind = "socket" /\ pc # "new" =>
            (ReachedSizeThreshold(batchFlushCount)
                <=> messagesSinceFlush >= batchFlushCount))
    /\ [][ TickFlushed =>
             /\ messagesSinceFlush' = 0
             /\ ~ReachedSizeThreshold(batchFlushCount)' ]_vars


\* ---------------------------------------------------------------- C20
\* BatchedWriterAssembly.Close, or Socket.close with its deferred function,
\* has returned.
CloseReturned ==
    \/ kind = "bwa" /\ closed /\ pc = "idle"
    \/ kind = "socket" /\ pc = "done"

\* C20: once close has returned the batch is closed and reports empty, and
\* no append succeeds any more: no message enters the buffer.
C20_NoAppendAfterClose ==
    /\ [](CloseReturned => closed /\ IsEmpty)
    /\ [][ CloseReturned =>
             \A m \in 1..MaxMsgs : Count(queue', m) <= Count(queue, m) ]_vars


\* ---------------------------------------------------------------- C21
\* A step of the flush in flight of the Socket producer that writes to the
\* socket.
SocketWriteStep ==
    /\ kind = "socket" /\ FlushStep
    /\ flightFn = "Write" /\ asmWriter # Nil

ReadMatches(r) == ~r.err /\ r.response = acknowledge

\* C21: with an empty acknowledge string no step reads from the connection
\* and a written message counts as delivered; with a non-empty one a
\* written message counts as delivered exactly when the read succeeded and
\* the bytes read equal the acknowledge string; after a read error or a
\* mismatch the error handler runs as after a failed write: the connection
\* is closed and set to nil, and the message and the rest of the snapshot
\* go to the drop path.
C21_AcknowledgeChecked ==
    [][ SocketWriteStep =>
          /\ acknowledge = <<>> => lastRead' = NoRead
          /\ lastRead' # NoRead =>
                /\ acknowledge # <<>>
                /\ Len(lastRead'.response) = Len(acknowledge)
                /\ (written' = Append(written, <<Head(flight), asmWriter>>))
                      <=> ReadMatches(lastRead')
          /\ written' # written =>
                (acknowledge = <<>> \/ ReadMatches(lastRead'))
          /\ (lastRead' # NoRead /\ ~ReadMatches(lastRead')) =>
                /\ connection' = Nil
                /\ connection \in sinkClosed'
                /\ dropped' = dropped \o flight
                /\ flight' = <<>>
                /\ written' = written
      ]_vars

C21_Witness ==
    /\ kind = "socket" /\ acknowledge = <<"O", "K">>
    /\ lastRead = [err |-> FALSE, response |-> <<"O", "0">>]
    /\ connection = Nil
    /\ written # <<>> /\ dropped # <<>>


\* ---------------------------------------------------------------- C22
\* A Close call of the BatchedWriterAssembly is under way.
InClose == kind = "bwa" /\ pc \in {"closeFlushWait", "closing"}

\* C22: Close with a writer set closes the batch and hands it to
\* assembly.Write; while the call is under way the writer's Close is not
\* called before Batch.Close has returned; then it is called once; and no
\* message is written to the writer after its Close.
C22_DrainThenCloseOnce ==
    [][ (kind = "bwa" /\ writer # Nil) =>
          /\ CloseBegin =>
                /\ closed' /\ asmWriter' = writer /\ waited' = 0
                /\ Handed("bwa", "Write")
                /\ closeCalls' = closeCalls
          /\ (InClose /\ pc' # "idle") =>
                closeCalls'[writer] = closeCalls[writer]
          /\ CloseEnd =>
                /\ WaitOver
                /\ closeCalls' = [closeCalls EXCEPT ![writer] = @ + 1]
          /\ written' # written => asmWriter \notin sinkClosed
      ]_vars


\* ---------------------------------------------------------------- C23
\* The step calls sendBatch on behalf of c: the ticker callback with a
\* threshold reached, a round of AppendRetry that finds no room, or close
\* after CloseGracefully succeeded.
SendBatchCalled(c) ==
    \/ c = "tick" /\ sendBatchOnTimeOut /\ sendBatchOnTimeOutCond
    \/ c = "msg" /\ sendMessage /\ ~CanAppend
    \/ c = "ctl" /\ closeGraceful(TRUE)

\* C23: a sendBatch call that has a connection after its dial hands the
\* batch to assembly.Write if the producer is active and to assembly.Flush
\* if it is not; a snapshot handed to assembly.Flush writes nothing to the
\* socket.
C23_PathByState ==
    [][ (kind = "socket") =>
          /\ \A c \in {"tick", "msg", "ctl"} :
                (SendBatchCalled(c) /\ connection' # Nil) =>
                    Handed(c, IF IsActive THEN "Write" ELSE "Flush")
          /\ flightFn = "Flush" => written' = written
      ]_vars

C23_Witness ==
    /\ kind = "socket" /\ state = "Stopping"
    /\ connection # Nil /\ connection \notin sinkClosed
    /\ flight # <<>> /\ flightFn = "Flush"
    /\ written # <<>>


\* ---------------------------------------------------------------- C24
\* C24: a sendBatch call that finds no connection and whose dial fails
\* changes nothing: the connection stays nil, the batch keeps its messages
\* in order, the threshold counters keep their values, nothing is written
\* and nothing is dropped.  In a round of AppendRetry of an active producer
\* the full batch therefore stays full and the message goes on being retried.
C24_FailedDialNoEffect ==
    [][ (kind = "socket") =>
          \A c \in {"tick", "msg", "ctl"} :
             (SendBatchCalled(c) /\ connection = Nil /\ connection' = Nil) =>
                /\ UNCHANGED <<queue, flight, flightFn, messagesSinceFlush, elapsed>>
                /\ UNCHANGED <<blockedFn, opened, asmWriter, sinkClosed, closeCalls>>
                /\ UNCHANGED <<written, lastRead>>
                /\ c # "msg" => dropped' = dropped
                /\ (c = "msg" /\ IsActive) =>
                      /\ dropped' = dropped
                      /\ pending' = (IF pending # Nil THEN pending ELSE nextMsg)
                      /\ ~CanAppend'
      ]_vars

C24_Witness ==
    /\ kind = "socket" /\ state = "Active"
    /\ connection = Nil /\ opened = 0
    /\ batchMaxCount > 0 /\ Len(queue) = batchMaxCount
    /\ pending # Nil /\ blockedFn["msg"] = "none"
    /\ messagesSinceFlush = batchMaxCount


\* ---------------------------------------------------------------- C25
\* Connections that were dialed and whose Close has not been called.
OpenConnections == {s \in 1..opened : s \notin sinkClosed}

\* C25: in every interleaving of the message path, the ticker callback, the
\* flush in flight with its error handler and close, the Socket producer
\* has at most one open connection, no step reads, writes or closes the
\* connection while it is nil (no step faults), and every connection that
\* was opened has been closed when close has finished, after which none is
\* opened.
C25_ConnectionDiscipline ==
    kind = "socket" =>
        /\ Cardinality(OpenConnections) <= 1
        /\ ~panicked
        /\ pc = "done" => OpenConnections = {}


\* ---------------------------------------------------------------- C26
\* C26: Close with a writer set leaves the writer in place: HasWriter is
\* still true and GetWriter returns the writer that was just closed.  A
\* later Flush or Close points the assembly at the closed writer and takes
\* the assembly.Write path, and a later Close calls its Close again; after
\* UnsetWriter there is no writer and after SetWriter the writer is a new,
\* open one.
C26_CloseKeepsWriter ==
    [][ (kind = "bwa") =>
          /\ (CloseEnd /\ writer # Nil) =>
                /\ HasWriter'
                /\ GetWriter' = GetWriter
                /\ GetWriter' \in sinkClosed'
          /\ ((Flush \/ CloseBegin) /\ writer # Nil /\ writer \in sinkClosed) =>
                /\ asmWriter' = writer
                /\ Handed("bwa", "Write")
          /\ (CloseEnd /\ writer # Nil /\ writer \in sinkClosed) =>
                closeCalls'[writer] >= 2
          /\ UnsetWriter => ~HasWriter'
          /\ (\E w \in 1..MaxSinks : SetWriter(w)) =>
                (HasWriter' /\ GetWriter' \notin sinkClosed)
      ]_vars

\* Two Close calls without a message and without SetWriter in between.
C26_Witness ==
    /\ kind = "bwa" /\ pc = "idle" /\ ~panicked
    /\ nextMsg = 1 /\ opened = 1
    /\ writer = 1 /\ asmWriter = 1
    /\ closeCalls[1] = 2

====
